---- MODULE Spec2Model ----
(***************************************************************************)
(* Model of the token lifecycle of the auth service: registration, login,  *)
(* refresh (rotation), logout and bearer verification, as implemented by   *)
(* api/v1/auth_router.py, services/token_service.py,                       *)
(* services/user_service.py and security/auth.py.                          *)
(*                                                                         *)
(* Time is counted in whole seconds (the unit jose truncates "exp" to).    *)
(* A token is the record of its signed payload plus the key that signed    *)
(* it: HS256 is deterministic, so equal payloads under one key are the     *)
(* same token string.                                                      *)
(***************************************************************************)
EXTENDS Integers, Sequences, FiniteSets, TLC

\* ---------------------------------------------------------------- bounds
\* last clock value explored
MaxTime == 2
\* number of /auth/login and /auth/refresh requests a behaviour makes
MaxReq == 4
\* number of distinct refresh tokens a behaviour logs out
MaxLogout == 1
\* settings.ACCESS_TOKEN_EXPIRE_MIN / REFRESH_TOKEN_EXPIRE_DAYS, scaled to
\* the clock of the model (access lifetime shorter than refresh lifetime)
AccessTTL == 1
RefreshTTL == 2

\* number of rows the roles table grows to
MaxRoles == 2

\* number of rows the subscriptions table grows to
MaxSubs == 2

\* ---------------------------------------------------------------- inputs
Emails == {"u1", "u2"}
Passwords == {"secret123!", "wrong"}
\* the password a principal registers with
RegPasswords == {"secret123!"}
\* the principal whose tokens the token lifecycle is explored with
TokenEmails == {"u1"}
Req == {1, 2}
\* who calls a route: a principal that passed get_current_user, or nobody
Anonymous == "anonymous"
Callers == Emails \cup {Anonymous}
\* members of the Permission enumeration (models.py lines 50-53)
MANAGE_USERS == "manage:users"
MANAGE_ROLES == "manage:roles"
VIEW_ADMIN_PANEL == "view:admin_panel"
Permission == {MANAGE_USERS, MANAGE_ROLES, VIEW_ADMIN_PANEL}
\* RoleCreate bodies: a name and a set of Permission values
RoleNames == {"A", "B"}
RolePermissions == {{MANAGE_USERS}, {MANAGE_ROLES}}
\* an entitlement is a free-form string, kept as the tuple of its
\* comma-free pieces: <<"hd", "4k">> is the string "hd,4k"
Entitlements == {<<"hd">>, <<"4k">>, <<"hd", "4k">>}
\* the entitlements argument of add_subscription: a list of strings
EntitlementLists == {<< <<"hd">> >>, << <<"hd", "4k">> >>, << <<"4k">> >>}
\* duration_days, a day being one unit of the clock
DurationDays == {0, 1}
ExtraDays == {1}
\* SubscriptionStatus (models.py)
ACTIVE == "active"
CANCELLED == "cancelled"
\* the permission lists a route is guarded with
RequiredLists ==
    {<<>>, <<MANAGE_ROLES>>, <<MANAGE_USERS, VIEW_ADMIN_PANEL>>,
     <<MANAGE_USERS, MANAGE_ROLES>>}
\* require_permissions(["manage_roles"]) of POST /roles/ (roles_router.py)
CreateRoleRequired == <<"manage_roles">>

\* a payload field the code does not set
Absent == "absent"
\* the value None where an object (a user row, a token, a payload) is expected
None == [none |-> TRUE]
\* a field of a response that is not set
Unset == "unset"

\* ---------------------------------------------------------- configuration
\* services.settings: the one secret token_service.py signs and decodes with
JWT_SECRET == "JWT_SECRET"
\* config/settings.py declares two secrets; token_service.py reads neither
JWT_ACCESS_SECRET == "JWT_ACCESS_SECRET"
JWT_REFRESH_SECRET == "JWT_REFRESH_SECRET"

\* ------------------------------------------------------------ PasswordHasher
hash_password(p) == <<"digest", p>>
verify_password(p, digest) == digest = hash_password(p)

VARIABLES
    now,        \* the clock (datetime.now / utcnow, in seconds)
    db,         \* user directory: email -> user row or None
    accessIssued,   \* every access token create_access_token has returned
    refreshIssued,  \* every refresh token create_refresh_token has returned
    reqs,       \* /auth/refresh requests in flight, one per worker slot
    succ,       \* <<old refresh, new refresh>> of every successful refresh
    replayed,   \* rotated refresh tokens that were exchanged once more
    loggedOut,  \* refresh tokens handed to /auth/logout
    authObs,    \* what callers of login have observed, by cause
    resp,       \* the last response of a handler that answers in one step
    login_history,  \* user ids with a recorded login event
    nReq,       \* login and refresh requests made so far
    roleRows,   \* the rows of the roles table
    roleReqs,   \* POST /roles/ requests in flight, one per worker slot
    subs,       \* the rows of the subscriptions table
    redisUp     \* whether the Redis behind get_redis can be reached

\* roles, subscriptions and the revocation store
authzVars == <<roleRows, roleReqs, subs, redisUp>>

vars == <<now, db, accessIssued, refreshIssued, reqs, succ, replayed,
          loggedOut, authObs, resp, login_history, nReq, roleRows, roleReqs,
          subs, redisUp>>

\* ------------------------------------------------------------------ tokens
NoPair == [access |-> None, refresh |-> None]

\* create_access_token with a bug: the payload is tagged as a refresh token
create_access_token_tagged_refresh(user, roles, entitlements, t) ==
    [sub |-> user.id, email |-> user.email, type |-> "refresh",
     roles |-> roles, entitlements |-> entitlements,
     exp |-> t + AccessTTL, key |-> JWT_SECRET]

\* TokenService.create_access_token
create_access_token(user, roles, entitlements, t) ==
    [sub |-> user.id, email |-> user.email, type |-> Absent,
     roles |-> roles, entitlements |-> entitlements,
     exp |-> t + AccessTTL, key |-> JWT_SECRET]

\* create_refresh_token with a bug: the "type" field is left out
create_refresh_token_untyped(user, t) ==
    [sub |-> user.id, email |-> Absent, type |-> Absent,
     roles |-> {}, entitlements |-> {},
     exp |-> t + RefreshTTL, key |-> JWT_SECRET]

\* TokenService.create_refresh_token
create_refresh_token(user, t) ==
    [sub |-> user.id, email |-> Absent, type |-> "refresh",
     roles |-> {}, entitlements |-> {},
     exp |-> t + RefreshTTL, key |-> JWT_SECRET]

\* jose.jwt.decode's expiry rule (_validate_exp): the token is rejected
\* only when exp < now, so it is still accepted at now = exp
NotExpired(token, t) == ~(token.exp < t)

\* TokenService.decode: the payload, or None on any JWTError
decode(token, t) ==
    IF token.key = JWT_SECRET /\ NotExpired(token, t) THEN token ELSE None

\* TokenService.decode_refresh: decode, then reject kind # refresh
decode_refresh(token, t) ==
    LET payload == decode(token, t) IN
    IF payload # None /\ payload.type = "refresh" THEN payload ELSE None

\* TokenService.verify_access: decode, then reject kind # access; a payload
\* without a kind discriminator is what create_access_token mints
verify_access(token, t) ==
    LET payload == decode(token, t) IN
    IF payload # None /\ payload.type \in {Absent, "access"} THEN payload
    ELSE None

\* TokenService.create_token_pair
create_token_pair(user, roles, entitlements, t) ==
    [access |-> create_access_token(user, roles, entitlements, t),
     refresh |-> create_refresh_token(user, t)]

\* a token signed by a party that holds no secret of the service
ForgedToken ==
    [sub |-> "u1", email |-> Absent, type |-> "refresh", roles |-> {},
     entitlements |-> {}, exp |-> MaxTime + RefreshTTL, key |-> "attacker"]

Presentable == accessIssued \cup refreshIssued \cup {ForgedToken}

\* the refresh tokens some /auth/refresh call has exchanged for a new pair
\* that carries another refresh token (a refresh within the second of the
\* issuance mints the same string again: the payloads carry no jti)
Rotated(links) == {p[1] : p \in {x \in links : x[1] # x[2]}}

\* ---------------------------------------------------------- user directory
\* UserRepository.get_by_email
get_by_email(d, email) == d[email]

\* UserRepository.get_by_id
get_by_id(d, id) ==
    IF \E e \in Emails : d[e] # None /\ d[e].id = id
    THEN d[CHOOSE e \in Emails : d[e] # None /\ d[e].id = id]
    ELSE None

\* [role.name for role in user.roles] (auth_router.py line 56)
UserRoleNames(user, rows) == {r.name : r \in {x \in rows : x.id \in user.roles}}

\* UserRepository.create: the row of a new user
NewUser(email, password_hash) ==
    [id |-> email, email |-> email, password_hash |-> password_hash,
     is_active |-> TRUE, is_superuser |-> FALSE,
     roles |-> {}, entitlements |-> {}]

\* authenticate with a bug: the password is not verified
authenticate_unverified(d, email, password) ==
    LET user == get_by_email(d, email) IN
    IF user = None THEN None ELSE user

\* UserService.authenticate
authenticate(d, email, password) ==
    LET user == get_by_email(d, email) IN
    IF user = None THEN None
    ELSE IF ~verify_password(password, user.password_hash) THEN None
    ELSE user

\* ------------------------------------------------------------ rotation chain
\* the refresh tokens linked to those of S by successful exchanges
RECURSIVE Lineage(_, _)
Lineage(S, links) ==
    LET N == S \cup {p[2] : p \in {x \in links : x[1] \in S}}
               \cup {p[1] : p \in {x \in links : x[2] \in S}}
    IN IF N = S THEN S ELSE Lineage(N, links)

\* ------------------------------------------------------------------- state
IdleReq ==
    [pc |-> "idle", token |-> None, sub |-> Unset, priorRotated |-> FALSE,
     priorLoggedOut |-> FALSE, priorReplay |-> FALSE, peerWon |-> FALSE]

NoResp ==
    [op |-> Unset, email |-> Unset, token |-> None, present |-> FALSE,
     active |-> FALSE, pwok |-> FALSE, result |-> Unset, status |-> Unset,
     detail |-> Unset, pair |-> NoPair, priorRotated |-> FALSE,
     priorLoggedOut |-> FALSE, priorReplay |-> FALSE, raced |-> FALSE,
     caller |-> Unset, privileged |-> FALSE, required |-> <<>>,
     name |-> Unset]

\* a POST /roles/ request slot
IdleRoleReq ==
    [pc |-> "idle", name |-> Unset, permissions |-> {}, caller |-> Unset,
     privileged |-> FALSE]

Init ==
    /\ now = 0
    /\ db = [e \in Emails |-> None]
    /\ accessIssued = {}
    /\ refreshIssued = {}
    /\ reqs = [q \in Req |-> IdleReq]
    /\ succ = {}
    /\ replayed = {}
    /\ loggedOut = {}
    /\ authObs = {}
    /\ resp = NoResp
    /\ login_history = {}
    /\ nReq = 0
    /\ roleRows = {}
    /\ roleReqs = [q \in Req |-> IdleRoleReq]
    /\ subs = {}
    /\ redisUp = TRUE

\* the clock advances
Tick ==
    /\ now < MaxTime
    /\ now' = now + 1
    /\ UNCHANGED authzVars
    /\ UNCHANGED <<db, accessIssued, refreshIssued, reqs, succ,
                   replayed, loggedOut, authObs, resp, login_history, nReq>>

\* POST /auth/register -> UserService.register
register_user(email, password) ==
    /\ IF get_by_email(db, email) # None
       THEN \* ValueError("Email already registered")
            /\ db' = db
            /\ resp' = [NoResp EXCEPT !.op = "register", !.email = email,
                                      !.present = TRUE, !.status = "500",
                                      !.detail = "Internal Server Error"]
       ELSE /\ db' = [db EXCEPT
                        ![email] = NewUser(email, hash_password(password))]
            /\ resp' = [NoResp EXCEPT !.op = "register", !.email = email,
                                      !.result = email, !.status = "200"]
    /\ UNCHANGED authzVars
    /\ UNCHANGED <<now, accessIssued, refreshIssued, reqs, succ,
                   replayed, loggedOut, authObs, login_history, nReq>>

\* the directory removes a principal
DeleteUser(email) ==
    /\ db[email] # None
    /\ db' = [db EXCEPT ![email] = None]
    /\ UNCHANGED authzVars
    /\ UNCHANGED <<now, accessIssued, refreshIssued, reqs, succ,
                   replayed, loggedOut, authObs, resp, login_history, nReq>>

\* the directory clears a principal's active flag (UserUpdate.is_active)
DeactivateUser(email) ==
    /\ db[email] # None
    /\ db[email].is_active
    /\ db' = [db EXCEPT ![email].is_active = FALSE]
    /\ UNCHANGED authzVars
    /\ UNCHANGED <<now, accessIssued, refreshIssued, reqs, succ,
                   replayed, loggedOut, authObs, resp, login_history, nReq>>

\* why an authenticate call ought to fail, read off the directory
Cause(d, email, password) ==
    IF d[email] = None THEN "no_such_user"
    ELSE IF ~verify_password(password, d[email].password_hash)
         THEN "wrong_password"
    ELSE IF ~d[email].is_active THEN "inactive"
    ELSE "none"

\* POST /auth/login
login_user(email, password) ==
    LET user == authenticate(db, email, password)
        row == db[email]
        facts == [NoResp EXCEPT
                    !.op = "login", !.email = email,
                    !.present = (row # None),
                    !.active = (row # None /\ row.is_active),
                    !.pwok = (row # None
                              /\ verify_password(password, row.password_hash))]
    IN
    /\ nReq < MaxReq
    /\ nReq' = nReq + 1
    /\ IF user = None
       THEN \* user.id on None: AttributeError, answered 500
            /\ resp' = [facts EXCEPT !.status = "500",
                                     !.detail = "Internal Server Error"]
            /\ UNCHANGED <<login_history, accessIssued, refreshIssued>>
       ELSE LET pair == create_token_pair(user,
                                UserRoleNames(user, roleRows),
                                user.entitlements, now) IN
            /\ login_history' = login_history \cup {user.id}
            /\ accessIssued' = accessIssued \cup {pair.access}
            /\ refreshIssued' = refreshIssued \cup {pair.refresh}
            /\ resp' = [facts EXCEPT !.result = user.id, !.status = "200",
                                     !.pair = pair]
    /\ authObs' = authObs \cup
            {[cause |-> Cause(db, email, password),
              result |-> resp'.result, status |-> resp'.status,
              detail |-> resp'.detail]}
    /\ UNCHANGED authzVars
    /\ UNCHANGED <<now, db, reqs, succ, replayed, loggedOut>>

\* POST /auth/refresh, up to the await of the user lookup (lines 47-53)
RefreshStart(q, token) ==
    LET payload == decode_refresh(token, now)
        started == [IdleReq EXCEPT
            !.token = token,
            !.priorRotated = (token \in Rotated(succ)),
            !.priorLoggedOut = (token \in loggedOut),
            !.priorReplay = (token \in Lineage(replayed, succ))]
    IN
    /\ reqs[q].pc = "idle"
    \* workers are interchangeable: the request takes the first free one
    /\ \A o \in Req : o < q => reqs[o].pc # "idle"
    /\ token \in Presentable
    /\ nReq < MaxReq
    /\ nReq' = nReq + 1
    /\ IF payload = None
       THEN /\ resp' = [NoResp EXCEPT
                    !.op = "refresh", !.token = token, !.status = "401",
                    !.detail = "Invalid refresh token",
                    !.priorRotated = started.priorRotated,
                    !.priorLoggedOut = started.priorLoggedOut,
                    !.priorReplay = started.priorReplay]
            /\ reqs' = reqs
       ELSE /\ reqs' = [reqs EXCEPT ![q] = [started EXCEPT
                    !.pc = "fetch", !.sub = payload.sub]]
            /\ resp' = resp
    /\ UNCHANGED authzVars
    /\ UNCHANGED <<now, db, accessIssued, refreshIssued, succ, replayed,
                   loggedOut, authObs, login_history>>

\* POST /auth/refresh, from the user lookup to the response (lines 55-58)
RefreshFinish(q) ==
    LET r == reqs[q]
        user == get_by_id(db, r.sub)
        answer == [NoResp EXCEPT
            !.op = "refresh", !.token = r.token,
            !.priorRotated = r.priorRotated,
            !.priorLoggedOut = r.priorLoggedOut,
            !.priorReplay = r.priorReplay, !.raced = r.peerWon]
    IN
    /\ r.pc = "fetch"
    /\ IF user = None
       THEN \* create_access_token reads user.id of None: answered 500
            /\ resp' = [answer EXCEPT !.status = "500",
                                      !.detail = "Internal Server Error"]
            /\ reqs' = [reqs EXCEPT ![q] = IdleReq]
            /\ UNCHANGED <<accessIssued, refreshIssued, succ, replayed>>
       ELSE LET pair == create_token_pair(user,
                                UserRoleNames(user, roleRows),
                                user.entitlements, now) IN
            /\ resp' = [answer EXCEPT !.status = "200", !.result = user.id,
                                      !.pair = pair]
            /\ reqs' = [o \in Req |->
                    IF o = q THEN IdleReq
                    ELSE IF reqs[o].pc = "fetch" /\ reqs[o].token = r.token
                         THEN [reqs[o] EXCEPT !.peerWon = TRUE]
                    ELSE reqs[o]]
            /\ accessIssued' = accessIssued \cup {pair.access}
            /\ refreshIssued' = refreshIssued \cup {pair.refresh}
            /\ succ' = succ \cup {<<r.token, pair.refresh>>}
            /\ replayed' = IF r.priorRotated THEN replayed \cup {r.token}
                           ELSE replayed
    /\ UNCHANGED authzVars
    /\ UNCHANGED <<now, db, loggedOut, authObs, login_history, nReq>>

\* POST /auth/logout
logout(token) ==
    /\ token \in refreshIssued \cup {ForgedToken}
    /\ Cardinality(loggedOut \cup {token}) <= MaxLogout
    /\ loggedOut' = loggedOut \cup {token}
    /\ resp' = [NoResp EXCEPT !.op = "logout", !.token = token,
                              !.status = "200", !.detail = "Logged out"]
    /\ UNCHANGED authzVars
    /\ UNCHANGED <<now, db, accessIssued, refreshIssued, reqs, succ,
                   replayed, authObs, login_history, nReq>>

\* security.auth.get_current_user, the bearer gate of protected routes
get_current_user(token) ==
    LET payload == verify_access(token, now)
        user == IF payload = None THEN None ELSE get_by_id(db, payload.sub)
        answer == [NoResp EXCEPT !.op = "get_current_user", !.token = token]
    IN
    /\ token \in Presentable
    /\ IF payload = None
       THEN resp' = [answer EXCEPT !.status = "401",
                                   !.detail = "Invalid token"]
       ELSE IF user = None
       THEN resp' = [answer EXCEPT !.status = "401",
                                   !.detail = "User not found."]
       ELSE resp' = [answer EXCEPT !.status = "200", !.result = user.id]
    /\ UNCHANGED authzVars
    /\ UNCHANGED <<now, db, accessIssued, refreshIssued, reqs, succ,
                   replayed, loggedOut, authObs, login_history, nReq>>

\* ------------------------------------------------------ revocation store
\* the Redis server behind get_redis stops answering
RedisDown ==
    /\ redisUp
    /\ redisUp' = FALSE
    /\ UNCHANGED <<roleRows, roleReqs, subs>>
    /\ UNCHANGED <<now, db, accessIssued, refreshIssued, reqs, succ,
                   replayed, loggedOut, authObs, resp, login_history, nReq>>

\* the Redis server answers again
RedisUp ==
    /\ ~redisUp
    /\ redisUp' = TRUE
    /\ UNCHANGED <<roleRows, roleReqs, subs>>
    /\ UNCHANGED <<now, db, accessIssued, refreshIssued, reqs, succ,
                   replayed, loggedOut, authObs, resp, login_history, nReq>>

\* ------------------------------------------------------- roles, permissions
\* the directory sets a principal's superuser flag (UserBase.is_superuser)
SetSuperuser(email) ==
    /\ db[email] # None
    /\ ~db[email].is_superuser
    /\ db' = [db EXCEPT ![email].is_superuser = TRUE]
    /\ UNCHANGED authzVars
    /\ UNCHANGED <<now, accessIssued, refreshIssued, reqs, succ, replayed,
                   loggedOut, authObs, resp, login_history, nReq>>

\* UserService.get_user_permissions: the union over the assigned roles
get_user_permissions(user, rows) ==
    UNION {r.permissions : r \in {x \in rows : x.id \in user.roles}}

\* the elements of a list
Range(list) == {list[i] : i \in DOMAIN list}

\* the checker with a bug: one held permission is enough
checker_any(user, required, rows) ==
    LET permissions == get_user_permissions(user, rows) IN
    IF user.is_superuser THEN [status |-> "200", detail |-> Unset]
    ELSE IF required = <<>> \/ \E i \in DOMAIN required :
                                    required[i] \in permissions
    THEN [status |-> "200", detail |-> Unset]
    ELSE [status |-> "403", detail |-> required[1]]

\* the checker with a bug: no superuser bypass
checker_no_bypass(user, required, rows) ==
    LET permissions == get_user_permissions(user, rows)
        lacking == {i \in DOMAIN required : required[i] \notin permissions}
    IN
    IF lacking = {} THEN [status |-> "200", detail |-> Unset]
    ELSE [status |-> "403",
          detail |-> required[CHOOSE i \in lacking :
                                    \A j \in lacking : i <= j]]

\* security.auth.require_permissions(required).checker for current_user:
\* True, or 403 naming the first permission of the list the user lacks
checker(user, required, rows) ==
    LET permissions == get_user_permissions(user, rows)
        lacking == {i \in DOMAIN required : required[i] \notin permissions}
    IN
    IF user.is_superuser THEN [status |-> "200", detail |-> Unset]
    ELSE IF lacking = {} THEN [status |-> "200", detail |-> Unset]
    ELSE [status |-> "403",
          detail |-> required[CHOOSE i \in lacking :
                                    \A j \in lacking : i <= j]]

\* a route guarded by Depends(require_permissions(required)), called by an
\* authenticated principal
require_permissions(email, required) ==
    LET answer == checker(db[email], required, roleRows) IN
    /\ db[email] # None
    /\ resp' = [NoResp EXCEPT !.op = "require_permissions",
                              !.email = email, !.caller = email,
                              !.required = required,
                              !.status = answer.status,
                              !.detail = answer.detail]
    /\ UNCHANGED authzVars
    /\ UNCHANGED <<now, db, accessIssued, refreshIssued, reqs, succ,
                   replayed, loggedOut, authObs, login_history, nReq>>

\* whether the caller of a route may manage roles: an authenticated
\* superuser or holder of Permission.MANAGE_ROLES
Privileged(caller) ==
    /\ caller # Anonymous
    /\ db[caller] # None
    /\ \/ db[caller].is_superuser
       \/ MANAGE_ROLES \in get_user_permissions(db[caller], roleRows)

\* RoleRepository.get_by_name
get_by_name(rows, name) == {r \in rows : r.name = name}

\* RoleRepository.create: the table with the new row added
create(rows, name, permissions) ==
    rows \cup {[id |-> Cardinality(rows) + 1, name |-> name,
                permissions |-> permissions]}

\* the roles table keeps Role.name unique: whether a new row may take name
NameIsFree(rows, name) == ~\E r \in rows : r.name = name

\* POST /roles/ with a bug: the name is not looked up before the insert
CreateRoleStart_unchecked(q, caller, name, permissions) ==
    /\ roleReqs[q].pc = "idle"
    /\ caller # Anonymous
    /\ db[caller] # None
    /\ checker(db[caller], CreateRoleRequired, roleRows).status = "200"
    /\ roleReqs' = [roleReqs EXCEPT ![q] =
            [pc |-> "create", name |-> name, permissions |-> permissions,
             caller |-> caller, privileged |-> TRUE]]
    /\ UNCHANGED <<roleRows, subs, redisUp>>
    /\ UNCHANGED <<now, db, accessIssued, refreshIssued, reqs, succ,
                   replayed, loggedOut, authObs, resp, login_history, nReq>>

\* POST /roles/: the permission gate, then RoleService.create_role up to
\* the await of repo.get_by_name
CreateRoleStart(q, caller, name, permissions) ==
    LET answer == [NoResp EXCEPT !.op = "create_role", !.caller = caller,
                                 !.name = name,
                                 !.privileged = Privileged(caller)]
        gate == IF caller = Anonymous
                THEN [status |-> "403", detail |-> "Not authenticated"]
                ELSE checker(db[caller], CreateRoleRequired, roleRows)
    IN
    /\ roleReqs[q].pc = "idle"
    /\ \A o \in Req : o < q => roleReqs[o].pc # "idle"
    /\ caller # Anonymous => db[caller] # None
    /\ IF gate.status # "200"
       THEN /\ resp' = [answer EXCEPT !.status = gate.status,
                                      !.detail = gate.detail]
            /\ roleReqs' = roleReqs
       ELSE IF get_by_name(roleRows, name) # {}
       THEN \* ValueError("Role already exists"), not caught by the route
            /\ resp' = [answer EXCEPT !.status = "500",
                                      !.detail = "Role already exists"]
            /\ roleReqs' = roleReqs
       ELSE /\ roleReqs' = [roleReqs EXCEPT ![q] =
                    [pc |-> "create", name |-> name,
                     permissions |-> permissions, caller |-> caller,
                     privileged |-> Privileged(caller)]]
            /\ resp' = resp
    /\ UNCHANGED <<roleRows, subs, redisUp>>
    /\ UNCHANGED <<now, db, accessIssued, refreshIssued, reqs, succ,
                   replayed, loggedOut, authObs, login_history, nReq>>

\* POST /roles/: RoleService.create_role from repo.create to the response
CreateRoleFinish(q) ==
    LET r == roleReqs[q] IN
    /\ r.pc = "create"
    /\ Cardinality(roleRows) < MaxRoles
    /\ roleReqs' = [roleReqs EXCEPT ![q] = IdleRoleReq]
    /\ IF NameIsFree(roleRows, r.name)
       THEN /\ roleRows' = create(roleRows, r.name, r.permissions)
            /\ resp' = [NoResp EXCEPT
                    !.op = "create_role", !.caller = r.caller,
                    !.name = r.name, !.privileged = r.privileged,
                    !.result = r.name, !.status = "200"]
       ELSE \* the flush is refused by the table, answered 500
            /\ roleRows' = roleRows
            /\ resp' = [NoResp EXCEPT
                    !.op = "create_role", !.caller = r.caller,
                    !.name = r.name, !.privileged = r.privileged,
                    !.status = "500", !.detail = "IntegrityError"]
    /\ UNCHANGED <<subs, redisUp>>
    /\ UNCHANGED <<now, db, accessIssued, refreshIssued, reqs, succ,
                   replayed, loggedOut, authObs, login_history, nReq>>

\* assign_role with a bug: the tokens already issued to the user are
\* rewritten to carry the new role
assign_role_resnapshot(caller, email, role_id) ==
    /\ db[email] # None
    /\ \E r \in roleRows : r.id = role_id
    /\ db' = [db EXCEPT ![email].roles = @ \cup {role_id}]
    /\ accessIssued' =
            {IF t.email = email
             THEN [t EXCEPT !.roles = UserRoleNames(db'[email], roleRows)]
             ELSE t : t \in accessIssued}
    /\ resp' = [NoResp EXCEPT !.op = "assign_role", !.caller = caller,
                              !.email = email, !.status = "200",
                              !.detail = "Role assigned"]
    /\ UNCHANGED authzVars
    /\ UNCHANGED <<now, refreshIssued, reqs, succ, replayed, loggedOut,
                   authObs, login_history, nReq>>

\* PATCH /roles/{role_id}/assign/{user_id}: the row lookups, then
\* RoleService.assign_role(user, role)
assign_role(caller, email, role_id) ==
    LET answer == [NoResp EXCEPT !.op = "assign_role", !.caller = caller,
                                 !.email = email,
                                 !.privileged = Privileged(caller)]
    IN
    /\ IF db[email] = None \/ ~\E r \in roleRows : r.id = role_id
       THEN \* ValueError, answered 400 by the route
            /\ db' = db
            /\ resp' = [answer EXCEPT !.status = "400"]
       ELSE /\ db' = [db EXCEPT ![email].roles = @ \cup {role_id}]
            /\ resp' = [answer EXCEPT !.status = "200",
                                      !.detail = "Role assigned"]
    /\ UNCHANGED authzVars
    /\ UNCHANGED <<now, accessIssued, refreshIssued, reqs, succ, replayed,
                   loggedOut, authObs, login_history, nReq>>

\* DELETE /roles/{role_id}/remove/{user_id} -> RoleService.remove_role
remove_role(caller, email, role_id) ==
    LET answer == [NoResp EXCEPT !.op = "remove_role", !.caller = caller,
                                 !.email = email,
                                 !.privileged = Privileged(caller)]
    IN
    /\ IF db[email] = None \/ role_id \notin db[email].roles
       THEN \* ValueError, answered 400 by the route
            /\ db' = db
            /\ resp' = [answer EXCEPT !.status = "400"]
       ELSE /\ db' = [db EXCEPT ![email].roles = @ \ {role_id}]
            /\ resp' = [answer EXCEPT !.status = "200",
                                      !.detail = "Role removed"]
    /\ UNCHANGED authzVars
    /\ UNCHANGED <<now, accessIssued, refreshIssued, reqs, succ, replayed,
                   loggedOut, authObs, login_history, nReq>>

\* ------------------------------------------------------------ subscriptions
\* ",".join(entitlements): the stored text, as its comma-separated fields
RECURSIVE Join(_)
Join(list) ==
    IF list = <<>> THEN <<>> ELSE Head(list) \o Join(Tail(list))

\* the entitlements a stored text gives back: one per comma-separated field
Split(text) == {<<text[i]>> : i \in DOMAIN text}

\* SubscriptionService.add_subscription
add_subscription(email, name, entitlements, duration_days) ==
    LET ends == IF duration_days # 0 THEN {now + duration_days} ELSE {} IN
    /\ db[email] # None
    /\ Cardinality(subs) < MaxSubs
    /\ subs' = subs \cup
            {[id |-> Cardinality(subs) + 1, user_id |-> db[email].id,
              name |-> name, entitlements |-> Join(entitlements),
              granted |-> Range(entitlements),
              duration_days |-> duration_days, started_at |-> now,
              ends_at |-> ends, status |-> ACTIVE]}
    /\ resp' = [NoResp EXCEPT !.op = "add_subscription", !.email = email,
                              !.status = "200"]
    /\ UNCHANGED <<roleRows, roleReqs, redisUp>>
    /\ UNCHANGED <<now, db, accessIssued, refreshIssued, reqs, succ,
                   replayed, loggedOut, authObs, login_history, nReq>>

\* SubscriptionService.extend
extend(sub_id, extra_days) ==
    \E s \in subs :
        LET ends == IF s.ends_at # {}
                    THEN {t + extra_days : t \in s.ends_at}
                    ELSE {now + extra_days}
        IN
        /\ s.id = sub_id
        /\ \A t \in ends : t <= MaxTime + 1
        /\ subs' = (subs \ {s}) \cup {[s EXCEPT !.ends_at = ends]}
        /\ resp' = [NoResp EXCEPT !.op = "extend", !.status = "200"]
        /\ UNCHANGED <<roleRows, roleReqs, redisUp>>
        /\ UNCHANGED <<now, db, accessIssued, refreshIssued, reqs, succ,
                       replayed, loggedOut, authObs, login_history, nReq>>

\* DELETE /subscriptions/revoke/{sub_id} -> SubscriptionService.revoke
revoke(sub_id) ==
    \E s \in subs :
        /\ s.id = sub_id
        /\ s.status = ACTIVE
        /\ subs' = (subs \ {s}) \cup {[s EXCEPT !.status = CANCELLED]}
        /\ resp' = [NoResp EXCEPT !.op = "revoke", !.status = "200",
                                  !.detail = "Subscription revoked"]
        /\ UNCHANGED <<roleRows, roleReqs, redisUp>>
        /\ UNCHANGED <<now, db, accessIssued, refreshIssued, reqs, succ,
                       replayed, loggedOut, authObs, login_history, nReq>>

\* whether a subscription counts at time t: active, its end not passed
InForce(s, t) == s.status = ACTIVE /\ \A end \in s.ends_at : t <= end

\* UserService.get_user_subscriptions: what the user's subscriptions in
\* force grant
get_user_subscriptions(user, rows, t) ==
    UNION {Split(s.entitlements) :
            s \in {x \in rows : x.user_id = user.id /\ InForce(x, t)}}

\* security.auth.require_subscription(sub_type).checker for current_user
require_subscription(email, sub_type) ==
    LET held == get_user_subscriptions(db[email], subs, now) IN
    /\ db[email] # None
    /\ resp' = [NoResp EXCEPT
                    !.op = "require_subscription", !.email = email,
                    !.caller = email, !.required = sub_type,
                    !.status = IF sub_type \notin held THEN "403" ELSE "200",
                    !.detail = IF sub_type \notin held
                               THEN "Subscription required." ELSE Unset]
    /\ UNCHANGED authzVars
    /\ UNCHANGED <<now, db, accessIssued, refreshIssued, reqs, succ,
                   replayed, loggedOut, authObs, login_history, nReq>>

\* change_password with a bug: the old password is not verified
change_password_unverified(email, old_password, new_password) ==
    /\ db[email] # None
    /\ db' = [db EXCEPT ![email].password_hash = hash_password(new_password)]
    /\ resp' = [NoResp EXCEPT !.op = "change_password", !.email = email,
                              !.present = TRUE, !.result = email,
                              !.status = "200"]
    /\ UNCHANGED authzVars
    /\ UNCHANGED <<now, accessIssued, refreshIssued, reqs, succ, replayed,
                   loggedOut, authObs, login_history, nReq>>

\* UserService.change_password, for a principal of the directory
change_password(email, old_password, new_password) ==
    /\ db[email] # None
    /\ IF ~verify_password(old_password, db[email].password_hash)
       THEN \* ValueError("Old password incorrect")
            /\ db' = db
            /\ resp' = [NoResp EXCEPT !.op = "change_password",
                                      !.email = email, !.present = TRUE,
                                      !.status = "ValueError",
                                      !.detail = "Old password incorrect"]
       ELSE /\ db' = [db EXCEPT
                ![email].password_hash = hash_password(new_password)]
            /\ resp' = [NoResp EXCEPT !.op = "change_password",
                                      !.email = email, !.present = TRUE,
                                      !.pwok = TRUE, !.result = email,
                                      !.status = "200"]
    /\ UNCHANGED authzVars
    /\ UNCHANGED <<now, accessIssued, refreshIssued, reqs, succ, replayed,
                   loggedOut, authObs, login_history, nReq>>

\* ----------------------------------------------------------- specifications
Next ==
    \/ Tick
    \/ \E e \in TokenEmails, p \in RegPasswords : register_user(e, p)
    \/ \E e \in TokenEmails, p \in Passwords : login_user(e, p)
    \/ \E q \in Req, t \in Presentable : RefreshStart(q, t)
    \/ \E q \in Req : RefreshFinish(q)
    \/ \E t \in refreshIssued \cup {ForgedToken} : logout(t)
    \/ \E t \in Presentable : get_current_user(t)

Spec == Init /\ [][Next]_vars

\* the authentication boundary alone: registration, deactivation, login
NextAuth ==
    \/ \E e \in Emails, p \in RegPasswords : register_user(e, p)
    \/ \E e \in Emails : DeactivateUser(e)
    \/ \E e \in Emails, p \in Passwords : login_user(e, p)

SpecAuth == Init /\ [][NextAuth]_vars

\* token kinds and expiry: issuance, refresh and the bearer gate
NextKinds ==
    \/ Tick
    \/ \E e \in TokenEmails, p \in RegPasswords : register_user(e, p)
    \/ \E e \in TokenEmails, p \in RegPasswords : login_user(e, p)
    \/ \E q \in Req, t \in Presentable : RefreshStart(q, t)
    \/ \E q \in Req : RefreshFinish(q)
    \/ \E t \in Presentable : get_current_user(t)

SpecKinds == Init /\ [][NextKinds]_vars

\* password change next to registration and login
NextPassword ==
    \/ \E e \in Emails, p \in RegPasswords : register_user(e, p)
    \/ \E e \in Emails, p \in Passwords : login_user(e, p)
    \/ \E e \in Emails, o \in Passwords, n \in Passwords :
            change_password(e, o, n)

SpecPassword == Init /\ [][NextPassword]_vars

\* the role ids a request can name
RoleIds == 1..MaxRoles

\* the permission check of a guarded route, over roles created and assigned
NextAuthz ==
    \/ \E e \in Emails, p \in RegPasswords : register_user(e, p)
    \/ \E e \in Emails : SetSuperuser(e)
    \/ \E c \in Emails, n \in RoleNames, ps \in RolePermissions :
            CreateRoleStart(1, c, n, ps)
    \/ CreateRoleFinish(1)
    \/ \E e \in Emails, i \in RoleIds : assign_role(Anonymous, e, i)
    \/ \E e \in Emails, i \in RoleIds : remove_role(Anonymous, e, i)
    \/ \E e \in Emails, req \in RequiredLists : require_permissions(e, req)

SpecAuthz == Init /\ [][NextAuthz]_vars

\* the role routes, called by anybody, with requests interleaved
NextRoles ==
    \/ \E e \in TokenEmails, p \in RegPasswords : register_user(e, p)
    \/ \E e \in TokenEmails : SetSuperuser(e)
    \/ \E q \in Req, c \in Callers, n \in RoleNames, ps \in RolePermissions :
            CreateRoleStart(q, c, n, ps)
    \/ \E q \in Req : CreateRoleFinish(q)
    \/ \E c \in Callers, e \in TokenEmails, i \in RoleIds :
            assign_role(c, e, i)
    \/ \E c \in Callers, e \in TokenEmails, i \in RoleIds :
            remove_role(c, e, i)

SpecRoles == Init /\ [][NextRoles]_vars

\* the subscription ids a request can name
SubIds == 1..MaxSubs

\* subscriptions added, extended, revoked and checked as time passes
NextSubs ==
    \/ Tick
    \/ \E e \in TokenEmails, p \in RegPasswords : register_user(e, p)
    \/ \E e \in TokenEmails, l \in EntitlementLists, d \in DurationDays :
            add_subscription(e, "premium", l, d)
    \/ \E i \in SubIds, d \in ExtraDays : extend(i, d)
    \/ \E i \in SubIds : revoke(i)
    \/ \E e \in TokenEmails, x \in Entitlements : require_subscription(e, x)

SpecSubs == Init /\ [][NextSubs]_vars

\* tokens issued and refreshed while roles and subscriptions change
NextSnapshot ==
    \/ \E e \in TokenEmails, p \in RegPasswords : register_user(e, p)
    \/ \E e \in TokenEmails : SetSuperuser(e)
    \/ \E c \in TokenEmails : CreateRoleStart(1, c, "A", {MANAGE_USERS})
    \/ CreateRoleFinish(1)
    \/ \E e \in TokenEmails, i \in RoleIds : assign_role(Anonymous, e, i)
    \/ \E e \in TokenEmails, i \in RoleIds : remove_role(Anonymous, e, i)
    \/ \E e \in TokenEmails : add_subscription(e, "premium", << <<"hd">> >>, 0)
    \/ \E i \in SubIds : revoke(i)
    \/ \E e \in TokenEmails, p \in RegPasswords : login_user(e, p)
    \/ \E t \in Presentable : RefreshStart(1, t)
    \/ RefreshFinish(1)

SpecSnapshot == Init /\ [][NextSnapshot]_vars

\* login and refresh while the revocation store goes down and comes back
NextStore ==
    \/ RedisDown
    \/ RedisUp
    \/ \E e \in TokenEmails, p \in RegPasswords : register_user(e, p)
    \/ \E e \in TokenEmails, p \in Passwords : login_user(e, p)
    \/ \E q \in Req, t \in Presentable : RefreshStart(q, t)
    \/ \E q \in Req : RefreshFinish(q)

SpecStore == Init /\ [][NextStore]_vars

\* refresh of tokens whose principal the directory has removed
NextGone ==
    \/ \E e \in TokenEmails, p \in RegPasswords : register_user(e, p)
    \/ \E e \in TokenEmails, p \in RegPasswords : login_user(e, p)
    \/ \E e \in TokenEmails : DeleteUser(e)
    \/ \E q \in Req, t \in Presentable : RefreshStart(q, t)
    \/ \E q \in Req : RefreshFinish(q)

SpecGone == Init /\ [][NextGone]_vars

\* ------------------------------------------------------------------ claims
\* the refresh tokens minted by a refresh
Successors == {p[2] : p \in succ}

\* C1: once a refresh with r0 has returned a new pair, every later refresh
\* with r0 fails and issues no tokens, while a later refresh with the
\* successor r1 (unexpired, first use) succeeds.
C1_RotationInvalidation ==
    resp.op = "refresh" =>
        /\ resp.priorRotated => resp.status # "200" /\ resp.pair = NoPair
        /\ (/\ resp.token \in Successors
            /\ ~resp.priorRotated
            /\ NotExpired(resp.token, now)) => resp.status = "200"

\* C2: of two interleaved refresh requests that carry the same freshly
\* issued refresh token, only one returns a new pair: a request that was in
\* flight while the other one succeeded does not succeed.
C2_OneRotationUnderConcurrency ==
    (resp.op = "refresh" /\ resp.raced /\ ~resp.priorRotated) =>
        resp.status # "200" /\ resp.pair = NoPair

\* C3: once an already-rotated token of a lineage has been presented to
\* refresh again (the replay the service has to detect), the other refresh
\* tokens of that lineage, the most recently issued one included, are not
\* exchanged any more.
C3_ReplayCascades ==
    (resp.op = "refresh" /\ resp.priorReplay /\ ~resp.priorRotated) =>
        resp.status # "200" /\ resp.pair = NoPair

\* C4: after logout has been called with a refresh token r, every later
\* refresh with r fails and issues no tokens.
C4_RefreshAfterLogoutFails ==
    (resp.op = "refresh" /\ resp.priorLoggedOut
        /\ resp.token \in refreshIssued) =>
        resp.status # "200" /\ resp.pair = NoPair

C7_DistinctSigningSecrets ==
    resp.pair # NoPair => resp.pair.access.key # resp.pair.refresh.key

\* C8: an access token with expiry exp fails to decode at now = exp and
\* decodes at now = exp - 1.
C8_ExpiryBoundary ==
    \A t \in accessIssued :
        /\ decode(t, t.exp) = None
        /\ decode(t, t.exp - 1) = t

\* C9: authenticate fails whenever the principal is absent, inactive or the
\* password does not verify, and returns the principal with the matching
\* identifier only for an existing, active principal with a verifying
\* password.
C9_AuthenticateOutcome ==
    resp.op = "login" =>
        IF resp.present /\ resp.active /\ resp.pwok
        THEN resp.result = resp.email
        ELSE resp.result = Unset /\ resp.status # "200"
             /\ resp.pair = NoPair

\* what the caller of login sees of one attempt
Observable(o) == [result |-> o.result, status |-> o.status,
                  detail |-> o.detail]

\* C10: a login that fails because there is no such user and a login that
\* fails because the password is wrong are answered identically.
C10_FailureCauseHidden ==
    \A a, b \in authObs :
        (/\ a.cause \in {"no_such_user", "wrong_password"}
         /\ b.cause \in {"no_such_user", "wrong_password"})
        => Observable(a) = Observable(b)

C10_Witness ==
    /\ \E a \in authObs : a.cause = "no_such_user"
    /\ \E b \in authObs : b.cause = "wrong_password"

\* C11: change_password fails and leaves the stored digest unchanged when
\* the old password does not verify; when it verifies, the stored digest is
\* replaced so that the new password verifies afterwards; in neither case
\* does the state of a refresh token change.
C11_ChangePassword ==
    [][\A e \in Emails, o \in Passwords, n \in Passwords :
        change_password(e, o, n) =>
            /\ IF verify_password(o, db[e].password_hash)
               THEN /\ verify_password(n, db'[e].password_hash)
                    /\ resp'.status = "200"
               ELSE /\ db'[e].password_hash = db[e].password_hash
                    /\ resp'.status # "200"
            /\ UNCHANGED <<refreshIssued, succ, replayed, loggedOut, reqs>>
      ]_vars

C11_Witness ==
    /\ resp.op = "change_password"
    /\ resp.status = "200"
    /\ db[resp.email].password_hash = hash_password("wrong")
    /\ refreshIssued # {}


\* C12: a superuser passes the permission check for every non-empty
\* required list, with no permission reported missing, whatever roles the
\* superuser holds.
C12_SuperuserBypass ==
    [][\A e \in Emails, req \in RequiredLists :
        (require_permissions(e, req) /\ req # <<>> /\ db[e].is_superuser)
            => (resp'.status = "200" /\ resp'.detail = Unset)]_vars

\* a superuser without any role has passed a check for two permissions
C12_Witness ==
    /\ resp.op = "require_permissions"
    /\ resp.status = "200"
    /\ Len(resp.required) = 2
    /\ db[resp.email].is_superuser
    /\ db[resp.email].roles = {}

C20_RefreshCarriesCurrentClaims ==
    [][(RefreshFinish(1) /\ resp'.status = "200") =>
        LET user == get_by_id(db, reqs[1].sub) IN
        /\ resp'.pair.access.roles =
                {r.name : r \in {x \in roleRows : x.id \in user.roles}}
        /\ resp'.pair.access.entitlements =
                UNION {s.granted :
                        s \in {x \in subs : /\ x.user_id = user.id
                                            /\ x.status = ACTIVE
                                            /\ \A end \in x.ends_at :
                                                    now <= end}}]_vars

\* C16: every minted claim set is issued before it expires and is told
\* apart from every token issued earlier by an identifier of its own: a
\* login or refresh that succeeds returns tokens never issued before.
C16_UniqueTokenIds ==
    [][\A e \in TokenEmails, p \in RegPasswords, q \in Req :
        ((login_user(e, p) \/ RefreshFinish(q)) /\ resp'.status = "200") =>
            /\ now < resp'.pair.access.exp
            /\ now < resp'.pair.refresh.exp
            /\ resp'.pair.access \notin accessIssued
            /\ resp'.pair.refresh \notin refreshIssued]_vars

\* C17: while the revocation store is unreachable, no login and no refresh
\* succeeds and no token is granted.
C17_FailClosed ==
    [][\A e \in TokenEmails, p \in Passwords, q \in Req :
        ((login_user(e, p) \/ RefreshFinish(q)) /\ ~redisUp) =>
            /\ resp'.status # "200"
            /\ accessIssued' = accessIssued
            /\ refreshIssued' = refreshIssued]_vars

\* C18: a role is created, assigned or removed only for an authenticated
\* caller who is a superuser or holds the role-management permission.
C18_RoleRoutesProtected ==
    (resp.op \in {"create_role", "assign_role", "remove_role"}
        /\ resp.status = "200") => resp.privileged

C21_LoginFailsAsAuthentication ==
    [][\A e \in Emails, p \in Passwords :
        login_user(e, p) =>
            IF db[e] # None /\ verify_password(p, db[e].password_hash)
            THEN /\ resp'.status = "200"
                 /\ resp'.pair.access \in accessIssued'
                 /\ db[e].id \in login_history'
            ELSE /\ resp'.status = "401"
                 /\ resp'.pair = NoPair
                 /\ accessIssued' = accessIssued
                 /\ refreshIssued' = refreshIssued
                 /\ login_history' = login_history]_vars

\* C22: when the subject of a validly signed refresh token is not found in
\* the user directory, the refresh is rejected as an invalid token (401)
\* and no token pair is produced.
C22_RefreshForMissingPrincipal ==
    [][\A q \in Req :
        (RefreshFinish(q) /\ get_by_id(db, reqs[q].sub) = None) =>
            /\ resp'.status = "401"
            /\ resp'.pair = NoPair
            /\ accessIssued' = accessIssued
            /\ refreshIssued' = refreshIssued]_vars

\* C23: the permission the create_role route requires is a member of the
\* Permission enumeration, and a principal that is not a superuser and whose
\* roles grant Permission.MANAGE_ROLES passes the gate of that route.
C23_ManageRolesPassesGate ==
    [][\A c \in Emails, n \in RoleNames, ps \in RolePermissions :
        (/\ CreateRoleStart(1, c, n, ps)
         /\ ~db[c].is_superuser
         /\ MANAGE_ROLES \in get_user_permissions(db[c], roleRows))
            => /\ Range(CreateRoleRequired) \subseteq Permission
               /\ \/ roleReqs'[1].pc = "create"
                  \/ resp'.detail = "Role already exists"]_vars

\* C24: add_subscription with a duration of d days, d = 0 included, creates
\* a subscription that ends d days after it started, and extend never
\* moves the end of a subscription earlier.
C24_SubscriptionEndTime ==
    [][/\ \A e \in TokenEmails, l \in EntitlementLists, d \in DurationDays :
            add_subscription(e, "premium", l, d) =>
                \E s \in subs' \ subs : s.ends_at = {s.started_at + d}
       /\ \A i \in SubIds, x \in ExtraDays :
            extend(i, x) =>
                \A s \in subs, t \in subs' :
                    (s.id = i /\ t.id = i) =>
                        \A a \in s.ends_at, b \in t.ends_at : a <= b]_vars

====
